---- MODULE Spec2Model ----
(***************************************************************************)
(* Model of the nom-based beancount parsers of src/src/parser.rs.          *)
(*                                                                         *)
(* An input is a sequence of one-character strings.  A parser is an        *)
(* operator P(s, p) applied to input s at position p (1-based, the index   *)
(* of the next unread character, Len(s)+1 at end of input).  It returns a  *)
(* record: on success ok = TRUE with the value and the position of the     *)
(* remaining input, on failure ok = FALSE with the set of base errors of   *)
(* the nom_supreme ErrorTree (location, kind, detail).                     *)
(***************************************************************************)
EXTENDS Integers, Sequences, FiniteSets, TLC

VARIABLES input, op, res

vars == <<input, op, res>>

(***************************************************************************)
(* Bounds of the input enumeration.                                        *)
(***************************************************************************)
MaxFlagLen == 3

MaxStrLen == 5

MaxSubs == 3

MaxItems == 3

\* the largest number of lines of a source buffer
MaxLines == 4

\* the largest number of operands of an expression
MaxOperands == 3

(***************************************************************************)
(* Results and the generic combinators of nom / nom_supreme.               *)
(***************************************************************************)
NoVal == [none |-> TRUE]

Ok(v, r) == [ok |-> TRUE, val |-> v, rest |-> r, errs |-> {}]

Err(es) == [ok |-> FALSE, val |-> NoVal, rest |-> 0, errs |-> es]

BaseError(p, k, w) == [loc |-> p, kind |-> k, what |-> w]

\* nom_supreme::tag::complete::tag : case-sensitive literal prefix match
sym(t, s, p) ==
    IF p + Len(t) - 1 <= Len(s) /\ \A k \in 1..Len(t) : s[p + k - 1] = t[k]
    THEN Ok(t, p + Len(t))
    ELSE Err({BaseError(p, "Tag", t)})

\* nom::character::complete::anychar
anychar(s, p) ==
    IF p <= Len(s) THEN Ok(s[p], p + 1) ELSE Err({BaseError(p, "Eof", <<>>)})

\* nom::combinator::map : replace the value of a successful result
map(r, v) == IF r.ok THEN Ok(v, r.rest) ELSE r

\* nom::branch::alt on ErrorTree : first success wins, failures are siblings
alt(rs) ==
    IF \E k \in 1..Len(rs) : rs[k].ok
    THEN rs[CHOOSE k \in 1..Len(rs) : rs[k].ok /\ \A j \in 1..(k - 1) : ~rs[j].ok]
    ELSE Err(UNION {rs[k].errs : k \in 1..Len(rs)})

(***************************************************************************)
(* Flags.                                                                  *)
(***************************************************************************)
UpperLetters ==
    {"A", "B", "C", "D", "E", "F", "G", "H", "I", "J", "K", "L", "M",
     "N", "O", "P", "Q", "R", "S", "T", "U", "V", "W", "X", "Y", "Z"}

LowerLetters ==
    {"a", "b", "c", "d", "e", "f", "g", "h", "i", "j", "k", "l", "m",
     "n", "o", "p", "q", "r", "s", "t", "u", "v", "w", "x", "y", "z"}

DigitChars == {"0", "1", "2", "3", "4", "5", "6", "7", "8", "9"}

Quote == "\""

Backslash == "\\"

Newline == "\n"

Tab == "\t"

\* every character that occurs in an input
AllChars ==
    UpperLetters \cup LowerLetters \cup DigitChars \cup
    {"*", "#", "!", "&", "?", "%", "'", "^", ":", "-", "_", "/", ".", " ",
     Quote, Backslash, Newline, Tab}

Flag(name) == [flag |-> name, letter |-> ""]

FlagLetterOf(c) == [flag |-> "Letter", letter |-> c]

\* FlagLetter::try_from(char) : the restricted flag-letter set
IsFlagLetter(c) == c \in UpperLetters

\* the letter alternative reporting a rejected letter as a plain mismatch
\* at the letter, as satisfy would
flag_letter_GenericError(s, p) ==
    LET q == sym(<<"'">>, s, p)
        c == anychar(s, q.rest)
    IN  IF ~q.ok THEN q
        ELSE IF ~c.ok THEN c
        ELSE IF IsFlagLetter(c.val) THEN Ok(FlagLetterOf(c.val), c.rest)
        ELSE Err({BaseError(q.rest, "Satisfy", <<>>)})

\* the seventh alternative of flag: map_res(tuple((sym("'"), anychar)), ...)
flag_letter(s, p) ==
    LET q == sym(<<"'">>, s, p)
        c == anychar(s, q.rest)
    IN  IF ~q.ok THEN q
        ELSE IF ~c.ok THEN c
        ELSE IF IsFlagLetter(c.val) THEN Ok(FlagLetterOf(c.val), c.rest)
        ELSE Err({BaseError(p, "External", <<"FlagLetterError">>)})

flag(s, p) ==
    alt(<< map(sym(<<"*">>, s, p), Flag("Asterisk")),
           map(sym(<<"#">>, s, p), Flag("Hash")),
           map(sym(<<"!">>, s, p), Flag("Exclamation")),
           map(sym(<<"&">>, s, p), Flag("Exclamation")),
           map(sym(<<"?">>, s, p), Flag("Question")),
           map(sym(<<"%">>, s, p), Flag("Percent")),
           flag_letter(s, p) >>)

\* txn with the keyword mapped to the pending flag
txn_WrongFlag(s, p) ==
    alt(<< map(sym(<<"t", "x", "n">>, s, p), Flag("Exclamation")), flag(s, p) >>)

txn(s, p) ==
    alt(<< map(sym(<<"t", "x", "n">>, s, p), Flag("Asterisk")), flag(s, p) >>)

(***************************************************************************)
(* Dates.                                                                  *)
(***************************************************************************)
\* i32::MAX, the bound of s.parse::<i32>()
MaxI32 == 2147483647

\* u32 values are kept as two 16-bit halves, value = hi * 2^16 + lo
Half == 65536

\* chrono's largest supported year (MAX_YEAR), checked by from_ymd_opt
MaxYear == 262143

DigitSeq == <<"0", "1", "2", "3", "4", "5", "6", "7", "8", "9">>

DigitVal(c) == (CHOOSE k \in 1..10 : DigitSeq[k] = c) - 1

\* a character predicate is modelled as the set of characters satisfying it
is_ascii_digit == DigitChars

\* end of the longest run of characters satisfying Pred that starts at p
RunEnd(Pred, s, p) ==
    CHOOSE q \in p..(Len(s) + 1) :
        /\ \A k \in p..(q - 1) : s[k] \in Pred
        /\ q = Len(s) + 1 \/ s[q] \notin Pred

\* nom::bytes::complete::take_while1
take_while1(Pred, s, p) ==
    LET q == RunEnd(Pred, s, p)
    IN  IF q = p THEN Err({BaseError(p, "TakeWhile1", <<>>)})
        ELSE Ok(SubSeq(s, p, q - 1), q)

RECURSIVE ParseI32_Saturating(_, _, _)
\* a parse that saturates at i32::MAX instead of failing
ParseI32_Saturating(ds, k, acc) ==
    IF k > Len(ds) THEN [ok |-> TRUE, val |-> acc]
    ELSE IF acc > MaxI32 \div 10 THEN [ok |-> TRUE, val |-> MaxI32]
    ELSE IF acc * 10 > MaxI32 - DigitVal(ds[k]) THEN [ok |-> TRUE, val |-> MaxI32]
    ELSE ParseI32_Saturating(ds, k + 1, acc * 10 + DigitVal(ds[k]))

RECURSIVE ParseI32(_, _, _)
\* str::parse::<i32> on a digit string: checked_mul(10) then checked_add(d)
ParseI32(ds, k, acc) ==
    IF k > Len(ds) THEN [ok |-> TRUE, val |-> acc]
    ELSE IF acc > MaxI32 \div 10 THEN [ok |-> FALSE, val |-> 0]
    ELSE IF acc * 10 > MaxI32 - DigitVal(ds[k]) THEN [ok |-> FALSE, val |-> 0]
    ELSE ParseI32(ds, k + 1, acc * 10 + DigitVal(ds[k]))

RECURSIVE ParseU32(_, _, _, _)
\* str::parse::<u32> on a digit string, on the two halves of the value
ParseU32(ds, k, hi, lo) ==
    IF k > Len(ds) THEN [ok |-> TRUE, hi |-> hi, lo |-> lo]
    ELSE LET lo2 == lo * 10 + DigitVal(ds[k])
             hi2 == hi * 10 + (lo2 \div Half)
         IN  IF hi2 >= Half THEN [ok |-> FALSE, hi |-> 0, lo |-> 0]
             ELSE ParseU32(ds, k + 1, hi2, lo2 % Half)

\* map_res(take_while1(is_ascii_digit), |s| s.parse::<i32>().map(|y| (y, s.len())))
year_group(s, p) ==
    LET d == take_while1(is_ascii_digit, s, p)
        n == ParseI32(d.val, 1, 0)
    IN  IF ~d.ok THEN d
        ELSE IF ~n.ok THEN Err({BaseError(p, "External", <<"ParseIntError">>)})
        ELSE Ok([year |-> n.val, year_len |-> Len(d.val)], d.rest)

\* a month or day group that must be written with exactly two digits
u32_group_TwoDigits(s, p) ==
    LET d == take_while1(is_ascii_digit, s, p)
        n == ParseU32(d.val, 1, 0, 0)
    IN  IF ~d.ok THEN d
        ELSE IF Len(d.val) # 2 THEN Err({BaseError(p, "TakeWhile1", <<>>)})
        ELSE IF ~n.ok THEN Err({BaseError(p, "External", <<"ParseIntError">>)})
        ELSE Ok([hi |-> n.hi, lo |-> n.lo], d.rest)

\* map_res(take_while1(is_ascii_digit), |s| s.parse::<u32>())
u32_group(s, p) ==
    LET d == take_while1(is_ascii_digit, s, p)
        n == ParseU32(d.val, 1, 0, 0)
    IN  IF ~d.ok THEN d
        ELSE IF ~n.ok THEN Err({BaseError(p, "External", <<"ParseIntError">>)})
        ELSE Ok([hi |-> n.hi, lo |-> n.lo], d.rest)

\* date::date_sep : one_of("-/")
date_sep(s, p) ==
    IF p <= Len(s) /\ s[p] \in {"-", "/"} THEN Ok(NoVal, p + 1)
    ELSE Err({BaseError(p, "OneOf", <<>>)})

IsLeapYear(y) == y % 4 = 0 /\ (y % 100 # 0 \/ y % 400 = 0)

DaysInMonth(y, m) ==
    IF m = 2 THEN (IF IsLeapYear(y) THEN 29 ELSE 28)
    ELSE IF m \in {4, 6, 9, 11} THEN 30 ELSE 31

\* chrono::NaiveDate::from_ymd_opt(year: i32, month: u32, day: u32)
from_ymd_opt(year, month, day) ==
    IF /\ year <= MaxYear
       /\ month.hi = 0 /\ month.lo \in 1..12
       /\ day.hi = 0 /\ day.lo \in 1..DaysInMonth(year, month.lo)
    THEN [some |-> TRUE, year |-> year, month |-> month.lo, day |-> day.lo]
    ELSE [some |-> FALSE, year |-> 0, month |-> 0, day |-> 0]

\* ParseError::nom_error(location, reason)
nom_error(p, reason) == Err({BaseError(p, "External", <<reason>>)})

\* date with the century check off by one (year_len < 3)
date_CenturyOffByOne(s, i0) ==
    LET y  == year_group(s, i0)
        s1 == date_sep(s, y.rest)
        m  == u32_group(s, s1.rest)
        s2 == date_sep(s, m.rest)
        d  == u32_group(s, s2.rest)
        nd == from_ymd_opt(y.val.year, m.val, d.val)
    IN  IF ~y.ok THEN y
        ELSE IF y.val.year_len < 3 THEN nom_error(i0, "DateMissingCentury")
        ELSE IF ~s1.ok THEN s1
        ELSE IF ~m.ok THEN m
        ELSE IF ~s2.ok THEN s2
        ELSE IF ~d.ok THEN d
        ELSE IF nd.some
             THEN Ok([year |-> nd.year, month |-> nd.month, day |-> nd.day], d.rest)
             ELSE nom_error(i0, "DateOutOfRange")

\* date with the out-of-range error located at the remaining input i
date_AnchorAtRest(s, i0) ==
    LET y  == year_group(s, i0)
        s1 == date_sep(s, y.rest)
        m  == u32_group(s, s1.rest)
        s2 == date_sep(s, m.rest)
        d  == u32_group(s, s2.rest)
        nd == from_ymd_opt(y.val.year, m.val, d.val)
    IN  IF ~y.ok THEN y
        ELSE IF y.val.year_len < 4 THEN nom_error(i0, "DateMissingCentury")
        ELSE IF ~s1.ok THEN s1
        ELSE IF ~m.ok THEN m
        ELSE IF ~s2.ok THEN s2
        ELSE IF ~d.ok THEN d
        ELSE IF nd.some
             THEN Ok([year |-> nd.year, month |-> nd.month, day |-> nd.day], d.rest)
             ELSE nom_error(d.rest, "DateOutOfRange")

\* date with month and day passed to from_ymd_opt in the wrong order
date_SwapMonthDay(s, i0) ==
    LET y  == year_group(s, i0)
        s1 == date_sep(s, y.rest)
        m  == u32_group(s, s1.rest)
        s2 == date_sep(s, m.rest)
        d  == u32_group(s, s2.rest)
        nd == from_ymd_opt(y.val.year, d.val, m.val)
    IN  IF ~y.ok THEN y
        ELSE IF y.val.year_len < 4 THEN nom_error(i0, "DateMissingCentury")
        ELSE IF ~s1.ok THEN s1
        ELSE IF ~m.ok THEN m
        ELSE IF ~s2.ok THEN s2
        ELSE IF ~d.ok THEN d
        ELSE IF nd.some
             THEN Ok([year |-> nd.year, month |-> nd.month, day |-> nd.day], d.rest)
             ELSE nom_error(i0, "DateOutOfRange")

\* date requiring the second separator to repeat the first
date_SameSeparator(s, i0) ==
    LET y  == year_group(s, i0)
        s1 == date_sep(s, y.rest)
        m  == u32_group(s, s1.rest)
        s2 == IF m.rest <= Len(s) /\ s[m.rest] = s[y.rest] THEN date_sep(s, m.rest)
              ELSE Err({BaseError(m.rest, "OneOf", <<>>)})
        d  == u32_group(s, s2.rest)
        nd == from_ymd_opt(y.val.year, m.val, d.val)
    IN  IF ~y.ok THEN y
        ELSE IF y.val.year_len < 4 THEN nom_error(i0, "DateMissingCentury")
        ELSE IF ~s1.ok THEN s1
        ELSE IF ~m.ok THEN m
        ELSE IF ~s2.ok THEN s2
        ELSE IF ~d.ok THEN d
        ELSE IF nd.some
             THEN Ok([year |-> nd.year, month |-> nd.month, day |-> nd.day], d.rest)
             ELSE nom_error(i0, "DateOutOfRange")

\* date with the century check made after the first separator
date_CenturyAfterSep(s, i0) ==
    LET y  == year_group(s, i0)
        s1 == date_sep(s, y.rest)
        m  == u32_group(s, s1.rest)
        s2 == date_sep(s, m.rest)
        d  == u32_group(s, s2.rest)
        nd == from_ymd_opt(y.val.year, m.val, d.val)
    IN  IF ~y.ok THEN y
        ELSE IF ~s1.ok THEN s1
        ELSE IF y.val.year_len < 4 THEN nom_error(i0, "DateMissingCentury")
        ELSE IF ~m.ok THEN m
        ELSE IF ~s2.ok THEN s2
        ELSE IF ~d.ok THEN d
        ELSE IF nd.some
             THEN Ok([year |-> nd.year, month |-> nd.month, day |-> nd.day], d.rest)
             ELSE nom_error(i0, "DateOutOfRange")

date(s, i0) ==
    LET y  == year_group(s, i0)
        s1 == date_sep(s, y.rest)
        m  == u32_group(s, s1.rest)
        s2 == date_sep(s, m.rest)
        d  == u32_group(s, s2.rest)
        nd == from_ymd_opt(y.val.year, m.val, d.val)
    IN  IF ~y.ok THEN y
        ELSE IF y.val.year_len < 4 THEN nom_error(i0, "DateMissingCentury")
        ELSE IF ~s1.ok THEN s1
        ELSE IF ~m.ok THEN m
        ELSE IF ~s2.ok THEN s2
        ELSE IF ~d.ok THEN d
        ELSE IF nd.some
             THEN Ok([year |-> nd.year, month |-> nd.month, day |-> nd.day], d.rest)
             ELSE nom_error(i0, "DateOutOfRange")

\* Display for ParseError
ParseErrorMessage(reason) ==
    IF reason = "DateMissingCentury" THEN "date requires century"
    ELSE "date out of range"

(***************************************************************************)
(* Quoted strings.                                                         *)
(***************************************************************************)
\* the `normal` characters of string_content: |c| c != '\\' && c != '"'
is_normal == AllChars \ {Backslash, Quote}

\* the `transform` parser of string_content: the four escapes
\* the escapes with \n left undecoded
transform_NoNewline(s, p) ==
    alt(<< map(sym(<<Backslash>>, s, p), <<Backslash>>),
           map(sym(<<Quote>>, s, p), <<Quote>>),
           map(sym(<<"n">>, s, p), <<"n">>),
           map(sym(<<"t">>, s, p), <<Tab>>) >>)

transform(s, p) ==
    alt(<< map(sym(<<Backslash>>, s, p), <<Backslash>>),
           map(sym(<<Quote>>, s, p), <<Quote>>),
           map(sym(<<"n">>, s, p), <<Newline>>),
           map(sym(<<"t">>, s, p), <<Tab>>) >>)

RECURSIVE escaped_transform(_, _, _, _)
\* nom::bytes::complete::escaped_transform(normal, '\\', transform) applied
\* to the input that starts at p0; index is the loop variable of the
\* library's while loop (as a position of s), acc the string built so far
escaped_transform(s, p0, index, acc) ==
    IF index > Len(s) THEN Ok(acc, index)
    ELSE LET n == take_while1(is_normal, s, index)
             t == transform(s, index + 1)
         IN  IF n.ok
             THEN IF n.rest > Len(s) THEN Ok(acc \o n.val, Len(s) + 1)
                  ELSE escaped_transform(s, p0, n.rest, acc \o n.val)
             ELSE IF s[index] = Backslash
             THEN IF index + 1 > Len(s)
                  THEN Err({BaseError(index, "EscapedTransform", <<>>)})
                  ELSE IF ~t.ok THEN t
                  ELSE IF t.rest > Len(s) THEN Ok(acc \o t.val, Len(s) + 1)
                  ELSE escaped_transform(s, p0, t.rest, acc \o t.val)
             ELSE IF index = p0
                  THEN Err({BaseError(index, "EscapedTransform", <<>>)})
                  ELSE Ok(acc, index)

string_content(s, p) == escaped_transform(s, p, p, <<>>)

\* delimited(sym("\""), string_content, sym("\""))
\* string with the closing quote optional at end of input
string_OptionalClose(s, p) ==
    LET o == sym(<<Quote>>, s, p)
        c == string_content(s, o.rest)
        e == sym(<<Quote>>, s, c.rest)
    IN  IF ~o.ok THEN o
        ELSE IF ~c.ok THEN c
        ELSE IF ~e.ok THEN (IF c.rest > Len(s) THEN Ok(c.val, c.rest) ELSE e)
        ELSE Ok(c.val, e.rest)

string(s, p) ==
    LET o == sym(<<Quote>>, s, p)
        c == string_content(s, o.rest)
        e == sym(<<Quote>>, s, c.rest)
    IN  IF ~o.ok THEN o
        ELSE IF ~c.ok THEN c
        ELSE IF ~e.ok THEN e
        ELSE Ok(c.val, e.rest)

(***************************************************************************)
(* Accounts.                                                               *)
(***************************************************************************)
Assets == <<"A", "s", "s", "e", "t", "s">>

Liabilities == <<"L", "i", "a", "b", "i", "l", "i", "t", "i", "e", "s">>

Equity == <<"E", "q", "u", "i", "t", "y">>

Income == <<"I", "n", "c", "o", "m", "e">>

Expenses == <<"E", "x", "p", "e", "n", "s", "e", "s">>

\* account_type that also accepts a lower-case spelling
account_type_LowerCase(s, p) ==
    alt(<< map(sym(Assets, s, p), "Assets"),
           map(sym(<<"a", "s", "s", "e", "t", "s">>, s, p), "Assets"),
           map(sym(Liabilities, s, p), "Liabilities"),
           map(sym(Equity, s, p), "Equity"),
           map(sym(Income, s, p), "Income"),
           map(sym(Expenses, s, p), "Expenses") >>)

account_type(s, p) ==
    alt(<< map(sym(Assets, s, p), "Assets"),
           map(sym(Liabilities, s, p), "Liabilities"),
           map(sym(Equity, s, p), "Equity"),
           map(sym(Income, s, p), "Income"),
           map(sym(Expenses, s, p), "Expenses") >>)

\* SubAccount::is_valid_initial
is_valid_initial == UpperLetters \cup DigitChars

\* SubAccount::is_valid_subsequent
is_valid_subsequent ==
    UpperLetters \cup LowerLetters \cup DigitChars \cup {"-", "_"}

\* <SubAccount as FromStr>::from_str
SubAccountFromStr(str) ==
    /\ Len(str) >= 1
    /\ str[1] \in is_valid_initial
    /\ \A k \in 2..Len(str) : str[k] \in is_valid_subsequent

\* nom::character::complete::satisfy
satisfy(Pred, s, p) ==
    IF p <= Len(s) /\ s[p] \in Pred THEN Ok(s[p], p + 1)
    ELSE Err({BaseError(p, "Satisfy", <<>>)})

sub_account(s, p) ==
    LET c == satisfy(is_valid_initial, s, p)
        q == RunEnd(is_valid_subsequent, s, c.rest)
        str == SubSeq(s, p, q - 1)
    IN  IF ~c.ok THEN c
        ELSE IF SubAccountFromStr(str) THEN Ok(str, q)
        ELSE Err({BaseError(p, "External", <<"SubAccountError">>)})

\* tuple((sym(":"), sub_account))
colon_sub(s, p) ==
    LET c == sym(<<":">>, s, p)
        n == sub_account(s, c.rest)
    IN  IF ~c.ok THEN c ELSE n

RECURSIVE colon_sub_pairs_EatColon(_, _, _)
\* a many0 that keeps the colon of the failed last pair consumed
colon_sub_pairs_EatColon(s, p, acc) ==
    LET r == colon_sub(s, p)
    IN  IF r.ok THEN colon_sub_pairs_EatColon(s, r.rest, Append(acc, r.val))
        ELSE IF sym(<<":">>, s, p).ok THEN Ok(acc, p + 1)
        ELSE Ok(acc, p)

RECURSIVE colon_sub_pairs(_, _, _)
\* many0(tuple((sym(":"), sub_account))) : stops at the first failure
colon_sub_pairs(s, p, acc) ==
    LET r == colon_sub(s, p)
    IN  IF r.ok THEN colon_sub_pairs(s, r.rest, Append(acc, r.val))
        ELSE Ok(acc, p)

\* Account::new(acc_type, names)
AccountNew(acc_type, names) ==
    [ok |-> names # <<>>, account |-> [type |-> acc_type, names |-> names]]

\* account that forgets the first sub-account (no once(sub))
account_DropFirst(s, p) ==
    LET t  == account_type(s, p)
        c  == sym(<<":">>, s, t.rest)
        n  == sub_account(s, c.rest)
        ps == colon_sub_pairs(s, n.rest, <<>>)
        a  == AccountNew(t.val, ps.val)
    IN  IF ~t.ok THEN t
        ELSE IF ~c.ok THEN c
        ELSE IF ~n.ok THEN n
        ELSE IF a.ok THEN Ok(a.account, ps.rest)
        ELSE Err({BaseError(p, "External", <<"AccountError">>)})

account(s, p) ==
    LET t  == account_type(s, p)
        c  == sym(<<":">>, s, t.rest)
        n  == sub_account(s, c.rest)
        ps == colon_sub_pairs(s, n.rest, <<>>)
        a  == AccountNew(t.val, <<n.val>> \o ps.val)
    IN  IF ~t.ok THEN t
        ELSE IF ~c.ok THEN c
        ELSE IF ~n.ok THEN n
        ELSE IF a.ok THEN Ok(a.account, ps.rest)
        ELSE Err({BaseError(p, "External", <<"AccountError">>)})

(***************************************************************************)
(* Lists of strings, tags and links.                                       *)
(***************************************************************************)
\* nom::character::complete::space0 : zero or more spaces and tabs
space0(s, p) == Ok(SubSeq(s, p, RunEnd({" ", Tab}, s, p) - 1), RunEnd({" ", Tab}, s, p))

RECURSIVE more_strings(_, _, _)
\* many0(tuple((space0, string))) : stops, without consuming, at the first
\* failure of the pair
more_strings(s, p, acc) ==
    LET w == space0(s, p)
        r == string(s, w.rest)
    IN  IF r.ok THEN more_strings(s, r.rest, Append(acc, r.val))
        ELSE Ok(acc, p)

txn_strings(s, p) ==
    LET s1 == string(s, p)
        v  == more_strings(s, s1.rest, <<>>)
    IN  IF s1.ok THEN Ok(<<s1.val>> \o v.val, v.rest)
        ELSE Ok(<<>>, p)

\* TagOrLinkIdentifier::is_valid_char
is_valid_char == UpperLetters \cup LowerLetters \cup DigitChars \cup {"-", "_", "/", "."}

\* TagOrLinkIdentifier::from_str
TagOrLinkIdentifierFromStr(str) ==
    Len(str) >= 1 /\ \A k \in 1..Len(str) : str[k] \in is_valid_char

tag_or_link_identifier(s, p) ==
    LET t == take_while1(is_valid_char, s, p)
    IN  IF ~t.ok THEN t
        ELSE IF TagOrLinkIdentifierFromStr(t.val) THEN t
        ELSE Err({BaseError(p, "External", <<"TagOrLinkIdentifierError">>)})

tag(s, p) ==
    LET h == sym(<<"#">>, s, p)
        n == tag_or_link_identifier(s, h.rest)
    IN  IF ~h.ok THEN h
        ELSE IF ~n.ok THEN n
        ELSE Ok([kind |-> "Tag", name |-> n.val], n.rest)

\* a link recorded as a tag
link_AsTag(s, p) ==
    LET h == sym(<<"^">>, s, p)
        n == tag_or_link_identifier(s, h.rest)
    IN  IF ~h.ok THEN h
        ELSE IF ~n.ok THEN n
        ELSE Ok([kind |-> "Tag", name |-> n.val], n.rest)

link(s, p) ==
    LET h == sym(<<"^">>, s, p)
        n == tag_or_link_identifier(s, h.rest)
    IN  IF ~h.ok THEN h
        ELSE IF ~n.ok THEN n
        ELSE Ok([kind |-> "Link", name |-> n.val], n.rest)

\* alt((map(tag, Left), map(link, Right)))
tag_or_link(s, p) == alt(<< tag(s, p), link(s, p) >>)

RECURSIVE more_tags_links(_, _, _)
\* many0(tuple((space0, tag_or_link)))
more_tags_links(s, p, acc) ==
    LET w == space0(s, p)
        r == tag_or_link(s, w.rest)
    IN  IF r.ok THEN more_tags_links(s, r.rest, Append(acc, r.val))
        ELSE Ok(acc, p)

tags_links(s, p) ==
    LET s1 == tag_or_link(s, p)
        v  == more_tags_links(s, s1.rest, <<>>)
    IN  IF s1.ok THEN Ok(<<s1.val>> \o v.val, v.rest)
        ELSE Ok(<<>>, p)

RECURSIVE Concat(_)
\* the concatenation of a sequence of sequences
Concat(ts) == IF ts = <<>> THEN <<>> ELSE Head(ts) \o Concat(Tail(ts))

(***************************************************************************)
(* The full parse of a source buffer: transaction headers with their       *)
(* indented metadata lines, collected into directives and errors, with     *)
(* recovery at the next line that starts with a valid date.  The headers   *)
(* are built from the parsers above; the directive grammar, the metadata   *)
(* and the recovery follow sections 3, 4.3 and 6 of the specification.     *)
(* Postings, the other directive variants, comments and blank lines are    *)
(* left out: the buffers explored contain none.                            *)
(***************************************************************************)
\* the line of s that starts at p ends before the position returned
LineEnd(s, p) ==
    CHOOSE q \in p..(Len(s) + 1) :
        /\ \A k \in p..(q - 1) : s[k] # Newline
        /\ q = Len(s) + 1 \/ s[q] = Newline

RECURSIVE lines(_, _)
\* the lines of the buffer s from position p, without their line ends
lines(s, p) ==
    IF p > Len(s) THEN <<>>
    ELSE <<SubSeq(s, p, LineEnd(s, p) - 1)>> \o lines(s, LineEnd(s, p) + 1)

\* nom::character::complete::space1 : one or more spaces and tabs
space1(s, p) ==
    IF space0(s, p).rest > p THEN space0(s, p)
    ELSE Err({BaseError(p, "Space", <<>>)})

\* end of line, after optional blanks
eol(s, p) ==
    IF space0(s, p).rest > Len(s) THEN Ok(<<>>, Len(s) + 1)
    ELSE Err({BaseError(space0(s, p).rest, "Eof", <<>>)})

is_blank(l) == \A k \in 1..Len(l) : l[k] \in {" ", Tab}

is_indented(l) == Len(l) >= 1 /\ l[1] \in {" ", Tab} /\ ~is_blank(l)

\* Transaction{flag, payee?, narration?}: one string is the narration, two
\* are the payee and the narration
payee_narration(strs) ==
    IF Len(strs) = 0 THEN [payee |-> NoVal, narration |-> NoVal]
    ELSE IF Len(strs) = 1 THEN [payee |-> NoVal, narration |-> strs[1]]
    ELSE [payee |-> strs[1], narration |-> strs[2]]

\* the header ends after its tags and links tl
header_end(s, d, f, ss, tl) ==
    IF ~eol(s, tl.rest).ok THEN eol(s, tl.rest)
    ELSE Ok([ date |-> d.val, flag |-> f.val,
              payee |-> payee_narration(ss.val).payee,
              narration |-> payee_narration(ss.val).narration,
              inline |-> tl.val ], eol(s, tl.rest).rest)

\* at most two strings ss, then the tags and links
header_tags(s, d, f, ss) ==
    IF Len(ss.val) > 2 THEN Err({BaseError(ss.rest, "External", <<"TooManyStrings">>)})
    ELSE header_end(s, d, f, ss, tags_links(s, space0(s, ss.rest).rest))

\* the flag f, then the strings
header_strings(s, d, f) ==
    IF ~f.ok THEN f
    ELSE header_tags(s, d, f, txn_strings(s, space0(s, f.rest).rest))

\* the date d, blanks, then the flag or txn
header_flag(s, d) ==
    IF ~d.ok THEN d
    ELSE IF ~space1(s, d.rest).ok THEN space1(s, d.rest)
    ELSE header_strings(s, d, txn(s, space1(s, d.rest).rest))

\* the header line of a transaction: date, flag or txn, strings, tags and
\* links
transaction_header(s) == header_flag(s, date(s, 1))

\* a metadata key: a lowercase letter, then letters, digits, - and _
meta_key(s, p) ==
    LET k == take_while1(UpperLetters \cup LowerLetters \cup DigitChars \cup {"-", "_"}, s, p)
    IN  IF ~k.ok THEN k
        ELSE IF k.val[1] \in LowerLetters THEN k
        ELSE Err({BaseError(p, "External", <<"KeyError">>)})

\* a string as a metadata value
text_value(r) == map(r, [kind |-> "Text", text |-> r.val])

\* a metadata value: text, tag or link (the other variants of the value are
\* not needed by the buffers explored)
meta_value(s, p) == alt(<< text_value(string(s, p)), tag_or_link(s, p) >>)

NoKey == <<>>

\* the value v ends the line
key_end(s, k, v) ==
    IF ~v.ok THEN v
    ELSE IF ~eol(s, v.rest).ok THEN eol(s, v.rest)
    ELSE Ok(<<[key |-> k.val, value |-> v.val]>>, eol(s, v.rest).rest)

\* the colon c, then the value
key_value(s, k, c) ==
    IF ~c.ok THEN c
    ELSE key_end(s, k, meta_value(s, space0(s, c.rest).rest))

\* the key k, then the colon
key_colon(s, k) ==
    IF ~k.ok THEN k
    ELSE key_value(s, k, sym(<<":">>, s, k.rest))

\* `key: value` on an indented line: one keyed metadata entry
keyed_line(s, p) == key_colon(s, meta_key(s, p))

\* the tags and links tl end the line
keyless_end(s, p, tl) ==
    IF tl.val = <<>> THEN Err({BaseError(p, "Tag", <<>>)})
    ELSE IF ~eol(s, tl.rest).ok THEN eol(s, tl.rest)
    ELSE Ok([k \in 1..Len(tl.val) |-> [key |-> NoKey, value |-> tl.val[k]]], eol(s, tl.rest).rest)

\* bare tags and links on an indented line: one metadata entry without a key
\* for each
keyless_line(s, p) == keyless_end(s, p, tags_links(s, p))

\* an indented line under a header
metadata_line(s) ==
    alt(<< keyed_line(s, space0(s, 1).rest), keyless_line(s, space0(s, 1).rest) >>)

\* Metadata::tags, Metadata::links : the names on the header line together
\* with those of the entries without a key, as sets
tag_names(items, kind) ==
    { items[k].name : k \in { j \in 1..Len(items) : items[j].kind = kind } }

keyless_values(entries) ==
    [ k \in 1..Len(SelectSeq(entries, LAMBDA en : en.key = NoKey)) |->
        SelectSeq(entries, LAMBDA en : en.key = NoKey)[k].value ]

tags(md) == tag_names(md.inline, "Tag") \cup tag_names(keyless_values(md.entries), "Tag")

links(md) == tag_names(md.inline, "Link") \cup tag_names(keyless_values(md.entries), "Link")

\* Metadata::key_values : the entries that have a key, in source order
key_values(md) == SelectSeq(md.entries, LAMBDA en : en.key # NoKey)

\* a message and the span (here the line) it originates from
ParseError(line, message) == [line |-> line, message |-> message]

\* the message of a failed line: the reason of a date failure, or a syntax
\* error
error_message(r) ==
    IF \E e \in r.errs : e.kind = "External" /\ e.what[1] \in {"DateMissingCentury", "DateOutOfRange"}
    THEN ParseErrorMessage((CHOOSE e \in r.errs :
             e.kind = "External" /\ e.what[1] \in {"DateMissingCentury", "DateOutOfRange"}).what[1])
    ELSE "syntax error"

\* the index of the first line after i that is not indented
block_end(ls, i) ==
    CHOOSE j \in (i + 1)..(Len(ls) + 1) :
        /\ \A k \in (i + 1)..(j - 1) : is_indented(ls[k])
        /\ j = Len(ls) + 1 \/ ~is_indented(ls[j])

\* the indented lines between the header at line i and line j
metadata_lines(ls, i, j) == [k \in 1..(j - i - 1) |-> metadata_line(ls[i + k])]

\* the first of the lines ms that failed
first_bad(ms) == CHOOSE k \in 1..Len(ms) : ~ms[k].ok /\ \A m \in 1..(k - 1) : ms[m].ok

\* the directive of the header h at line i and of the lines ms under it, or
\* the error of the first line that failed
directive_of(i, h, ms) ==
    IF ~h.ok THEN [ok |-> FALSE, error |-> ParseError(i, error_message(h))]
    ELSE IF \E k \in 1..Len(ms) : ~ms[k].ok
    THEN [ok |-> FALSE, error |-> ParseError(i + first_bad(ms), error_message(ms[first_bad(ms)]))]
    ELSE [ ok |-> TRUE, rest |-> i + Len(ms) + 1,
           val |-> [ line |-> i, date |-> h.val.date, flag |-> h.val.flag,
                     payee |-> h.val.payee, narration |-> h.val.narration,
                     metadata |-> [ inline |-> h.val.inline,
                                    entries |-> Concat([k \in 1..Len(ms) |-> ms[k].val]) ] ] ]

\* one directive at line i of ls: the header and the indented lines under it
directive(ls, i) ==
    directive_of(i, transaction_header(ls[i]), metadata_lines(ls, i, block_end(ls, i)))

\* a line that looks like the start of a directive: it begins with a valid
\* date
is_directive_start(l) == date(l, 1).ok

\* the lines after i that look like the start of a directive
starts_after(ls, i) == {k \in (i + 1)..Len(ls) : is_directive_start(ls[k])}

\* the least line of S, or none
least(S, none) == IF S = {} THEN none ELSE CHOOSE k \in S : \A m \in S : k <= m

\* a recovery that resumes one directive start too late
next_start_SkipOne(ls, i) ==
    least({k \in starts_after(ls, i) : \E m \in starts_after(ls, i) : m < k}, Len(ls) + 1)

\* the first line after i that looks like the start of a directive
next_start(ls, i) == least(starts_after(ls, i), Len(ls) + 1)

\* the parser's progress: the lines of the buffer, the next line and what
\* has been collected
ParseState(ls, pos, directives, errors) ==
    [lines |-> ls, pos |-> pos, directives |-> directives, errors |-> errors]

\* the directive d is added, the parser moves past its lines
accept(st, d) ==
    ParseState(st.lines, d.rest, Append(st.directives, d.val), st.errors)

\* a recovery that resumes at the very next line
recover_NextLine(st, d) ==
    ParseState(st.lines, st.pos + 1, st.directives, Append(st.errors, d.error))

\* one ParseError for the unparsable directive d, then skip to the next line
\* that starts a directive
recover(st, d) ==
    ParseState(st.lines, next_start(st.lines, st.pos), st.directives,
               Append(st.errors, d.error))

\* what the caller receives: the directives alone when there is no error,
\* otherwise the errors and the directives parsed around the failures
parse_result(st) ==
    [ok |-> st.errors = <<>>, directives |-> st.directives, errors |-> st.errors]

\* the parser's progress after the attempt d at the next line
step(st, d) == IF d.ok THEN accept(st, d) ELSE recover(st, d)

RECURSIVE parse_from(_)
\* the whole pass over the lines, from the state st
parse_from(st) ==
    IF st.pos > Len(st.lines) THEN parse_result(st)
    ELSE parse_from(step(st, directive(st.lines, st.pos)))

\* BeancountParser::parse on a buffer whose lines are ls
parse(ls) == parse_from(ParseState(ls, 1, <<>>, <<>>))

(***************************************************************************)
(* Arithmetic expressions and their evaluation to rust_decimal::Decimal.   *)
(* The grammar and the evaluator follow section 4.2 of the specification   *)
(* (the modules arithmetic and arithmetic_ast are declared at parser.rs    *)
(* 203-204); the value type is the Decimal of the test harness: a          *)
(* coefficient below 2^96 and a scale of at most 28.  Division is left     *)
(* out: its rounding policy is not fixed by the specification.             *)
(***************************************************************************)
\* natural numbers of any size are sequences of limbs in this base, least
\* significant first, without leading zeros
Base == 10 ^ 4

RECURSIVE Trim(_)
Trim(a) == IF a # <<>> /\ a[Len(a)] = 0 THEN Trim(SubSeq(a, 1, Len(a) - 1)) ELSE a

Low(a) == IF a = <<>> THEN 0 ELSE Head(a)

Rest(a) == IF a = <<>> THEN <<>> ELSE Tail(a)

RECURSIVE NAddC(_, _, _)
NAddC(a, b, c) ==
    IF a = <<>> /\ b = <<>> THEN (IF c = 0 THEN <<>> ELSE <<c>>)
    ELSE <<(Low(a) + Low(b) + c) % Base>>
             \o NAddC(Rest(a), Rest(b), (Low(a) + Low(b) + c) \div Base)

NAdd(a, b) == NAddC(a, b, 0)

NLess(a, b) ==
    \/ Len(a) < Len(b)
    \/ /\ Len(a) = Len(b)
       /\ \E k \in 1..Len(a) : a[k] < b[k] /\ \A j \in (k + 1)..Len(a) : a[j] = b[j]

RECURSIVE NSubB(_, _, _)
NSubB(a, b, c) ==
    IF a = <<>> THEN <<>>
    ELSE <<(Low(a) - Low(b) - c + Base) % Base>>
             \o NSubB(Rest(a), Rest(b), IF Low(a) - Low(b) - c < 0 THEN 1 ELSE 0)

\* a - b for a >= b
NSub(a, b) == Trim(NSubB(a, b, 0))

RECURSIVE NMulLimb(_, _, _)
\* a * d + c for a limb d
NMulLimb(a, d, c) ==
    IF a = <<>> THEN (IF c = 0 THEN <<>> ELSE <<c>>)
    ELSE <<(Head(a) * d + c) % Base>> \o NMulLimb(Tail(a), d, (Head(a) * d + c) \div Base)

\* a * Base^q
ShiftLimbs(a, q) == IF a = <<>> THEN <<>> ELSE [i \in 1..q |-> 0] \o a

RECURSIVE NMul(_, _)
NMul(a, b) ==
    IF a = <<>> \/ b = <<>> THEN <<>>
    ELSE NAdd(Trim(NMulLimb(a, Head(b), 0)), ShiftLimbs(NMul(a, Tail(b)), 1))

\* a * 10^k
Shift(a, k) == ShiftLimbs(Trim(NMulLimb(a, 10 ^ (k % 4), 0)), k \div 4)

RECURSIVE DivLimb(_, _)
\* quotient and remainder of a by a limb d
DivLimb(a, d) ==
    IF a = <<>> THEN [q |-> <<>>, r |-> 0]
    ELSE LET hi  == DivLimb(Tail(a), d)
             cur == hi.r * Base + Head(a)
         IN  [q |-> <<cur \div d>> \o hi.q, r |-> cur % d]

\* a / 10^k rounded to the nearest, halves to the even neighbour
RoundDiv(a, k) ==
    LET n    == k \div 4
        r    == k % 4
        dv   == DivLimb(SubSeq(a, n + 1, Len(a)), 10 ^ r)
        q    == Trim(dv.q)
        last == IF 1 <= n /\ n <= Len(a) THEN a[n] ELSE 0
        top  == IF r >= 1 THEN dv.r \div (10 ^ (r - 1)) ELSE last \div 1000
        tail == IF r >= 1
                THEN dv.r % (10 ^ (r - 1)) # 0 \/ \E j \in 1..n : j <= Len(a) /\ a[j] # 0
                ELSE last % 1000 # 0 \/ \E j \in 1..(n - 1) : j <= Len(a) /\ a[j] # 0
        up   == top > 5 \/ (top = 5 /\ (tail \/ Low(q) % 2 = 1))
    IN  IF k = 0 THEN a
        ELSE IF up THEN NAdd(q, <<1>>) ELSE q

\* 2^96, the first coefficient a Decimal cannot hold
Two96 == <<336, 4395, 5935, 4337, 1426, 1625, 9228, 7>>

\* the largest scale of a Decimal
MaxScale == 28

Decimal(neg, coef, scale) == [neg |-> neg /\ coef # <<>>, coef |-> coef, scale |-> scale]

OkValue(d) == [ok |-> TRUE, val |-> d]

\* the result does not fit a Decimal at any scale
Overflow == [ok |-> FALSE, val |-> NoVal]

RECURSIVE Fit(_, _, _, _)
\* the exact result coef / 10^scale brought into a Decimal: k digits are
\* dropped from the right, with rounding, for the least k that leaves a scale
\* of at most MaxScale and a coefficient below 2^96
Fit(neg, coef, scale, k) ==
    IF scale - k < 0 THEN Overflow
    ELSE IF scale - k <= MaxScale /\ NLess(RoundDiv(coef, k), Two96)
    THEN OkValue(Decimal(neg, RoundDiv(coef, k), scale - k))
    ELSE Fit(neg, coef, scale, k + 1)

Max(a, b) == IF a >= b THEN a ELSE b

\* Decimal * Decimal : the coefficients are multiplied, the scales added
dec_mul(x, y) ==
    Fit(x.neg # y.neg, NMul(x.coef, y.coef), x.scale + y.scale, 0)

\* Decimal + Decimal : both brought to the larger scale, then added with
\* their signs
dec_add(x, y) ==
    LET e == Max(x.scale, y.scale)
        a == Shift(x.coef, e - x.scale)
        b == Shift(y.coef, e - y.scale)
    IN  IF x.neg = y.neg THEN Fit(x.neg, NAdd(a, b), e, 0)
        ELSE IF NLess(a, b) THEN Fit(y.neg, NSub(b, a), e, 0)
        ELSE Fit(x.neg, NSub(a, b), e, 0)

dec_neg(x) == Decimal(~x.neg, x.coef, x.scale)

dec_sub(x, y) == dec_add(x, dec_neg(y))

\* the number written by the digits ds
Limbs(ds) ==
    Trim([i \in 1..((Len(ds) + 3) \div 4) |->
             LET d(j) == IF j >= 1 THEN DigitVal(ds[j]) ELSE 0
                 u    == Len(ds) - 4 * (i - 1)
             IN  d(u) + 10 * d(u - 1) + 100 * d(u - 2) + 1000 * d(u - 3)])

\* Decimal::from_str on the integer and fraction digits of a literal
from_str(int, frac) ==
    IF Len(frac) <= MaxScale /\ NLess(Limbs(int \o frac), Two96)
    THEN OkValue(Decimal(FALSE, Limbs(int \o frac), Len(frac)))
    ELSE Overflow

\* the character at position p of s is c
at(s, p, c) == p <= Len(s) /\ s[p] = c

\* where the fraction that may start at q ends
fraction_end(s, q) == IF at(s, q, ".") THEN RunEnd(is_ascii_digit, s, q + 1) ELSE q

\* the literal from p to fe with the value d
literal_value(s, p, fe, d) ==
    IF ~d.ok THEN Err({BaseError(p, "External", <<"NumberError">>)})
    ELSE Ok([kind |-> "Value", text |-> SubSeq(s, p, fe - 1), value |-> d.val], fe)

\* the literal with the integer digits i and the fraction up to fe
literal(s, p, i, fe) ==
    literal_value(s, p, fe, from_str(i.val, SubSeq(s, i.rest + 1, fe - 1)))

\* the integer digits i, then the fraction
number_of(s, p, i) == IF ~i.ok THEN i ELSE literal(s, p, i, fraction_end(s, i.rest))

\* a number literal: digits, optionally a point and more digits
number(s, p) == number_of(s, p, take_while1(is_ascii_digit, s, p))

RECURSIVE factor(_, _), expr(_, _), term_rest(_, _, _), expr_rest(_, _, _)
\* unary minus applied to the factor f
negation(f) == IF f.ok THEN Ok([kind |-> "Neg", arg |-> f.val], f.rest) ELSE f

\* the closing parenthesis c after the expression e
closed(e, c) == IF ~c.ok THEN c ELSE Ok([kind |-> "Paren", arg |-> e.val], c.rest)

\* the expression e in parentheses, then the closing parenthesis
paren(s, e) == IF ~e.ok THEN e ELSE closed(e, sym(<<")">>, s, space0(s, e.rest).rest))

factor_at(s, p) ==
    IF at(s, p, "-") THEN negation(factor(s, p + 1))
    ELSE IF at(s, p, "(") THEN paren(s, expr(s, p + 1))
    ELSE number(s, p)

\* factor: unary minus, a parenthesised expression, or a number
factor(s, p) == factor_at(s, space0(s, p).rest)

\* the product of acc and the factor f, then the factors that follow
times(s, acc, f) ==
    IF f.ok THEN term_rest(s, f.rest, [kind |-> "Mul", left |-> acc, right |-> f.val]) ELSE f

term_rest_at(s, p, p0, acc) ==
    IF at(s, p, "*") THEN times(s, acc, factor(s, p + 1)) ELSE Ok(acc, p0)

\* the factors that follow, joined to the left
term_rest(s, p, acc) == term_rest_at(s, space0(s, p).rest, p, acc)

term_of(s, f) == IF f.ok THEN term_rest(s, f.rest, f.val) ELSE f

term(s, p) == term_of(s, factor(s, p))

\* the sum or difference of acc and the term t, then the terms that follow
plus(s, kind, acc, t) ==
    IF t.ok THEN expr_rest(s, t.rest, [kind |-> kind, left |-> acc, right |-> t.val]) ELSE t

expr_rest_at(s, p, p0, acc) ==
    IF at(s, p, "+") THEN plus(s, "Add", acc, term(s, p + 1))
    ELSE IF at(s, p, "-") THEN plus(s, "Sub", acc, term(s, p + 1))
    ELSE Ok(acc, p0)

\* the terms that follow, joined to the left
expr_rest(s, p, acc) == expr_rest_at(s, space0(s, p).rest, p, acc)

expr_of(s, t) == IF t.ok THEN expr_rest(s, t.rest, t.val) ELSE t

expr(s, p) == expr_of(s, term(s, p))

\* the expression e, then the end of the text
whole(s, e) ==
    IF ~e.ok THEN e
    ELSE IF ~eol(s, e.rest).ok THEN eol(s, e.rest)
    ELSE Ok(e.val, eol(s, e.rest).rest)

\* a whole text as one expression
parse_expr(s) == whole(s, expr(s, 1))

\* the negation of an evaluated operand
negated(x) == IF x.ok THEN OkValue(dec_neg(x.val)) ELSE Overflow

\* a product kept at the larger scale of its factors
combined_MulMaxScale(kind, x, y) ==
    IF ~x.ok \/ ~y.ok THEN Overflow
    ELSE IF kind = "Add" THEN dec_add(x.val, y.val)
    ELSE IF kind = "Sub" THEN dec_sub(x.val, y.val)
    ELSE Fit(x.val.neg # y.val.neg, NMul(x.val.coef, y.val.coef), Max(x.val.scale, y.val.scale), 0)

\* the operation of a node on its evaluated operands
combined(kind, x, y) ==
    IF ~x.ok \/ ~y.ok THEN Overflow
    ELSE IF kind = "Add" THEN dec_add(x.val, y.val)
    ELSE IF kind = "Sub" THEN dec_sub(x.val, y.val)
    ELSE dec_mul(x.val, y.val)

RECURSIVE value(_)
\* the value of an expression; an operation that overflows fails the whole
\* evaluation
value(a) ==
    IF a.kind = "Value" THEN OkValue(a.value)
    ELSE IF a.kind = "Paren" THEN value(a.arg)
    ELSE IF a.kind = "Neg" THEN negated(value(a.arg))
    ELSE combined(a.kind, value(a.left), value(a.right))

(***************************************************************************)
(* Inputs.                                                                 *)
(***************************************************************************)
SeqsUpTo(A, n) == UNION {[1..k -> A] : k \in 0..n}

FlagAlphabet == {"*", "#", "!", "&", "?", "%", "'", "A", "Z", "z", "t", "x", "n"}

FlagInputs ==
    SeqsUpTo(FlagAlphabet, MaxFlagLen) \cup
    {<<"t", "x", "n">> \o t : t \in SeqsUpTo(FlagAlphabet, MaxFlagLen - 2)}

YearLits ==
    { <<"1">>, <<"1", "2", "3">>, <<"0", "0", "0", "0">>,
      <<"2", "0", "2", "3">>, <<"2", "0", "2", "4">>, <<"1", "9", "0", "0">>,
      <<"2", "0", "0", "0">>, <<"0", "2", "0", "2", "3">>,
      <<"2", "6", "2", "1", "4", "3">>, <<"2", "6", "2", "1", "4", "4">>,
      <<"2", "1", "4", "7", "4", "8", "3", "6", "4", "7">>,
      <<"2", "1", "4", "7", "4", "8", "3", "6", "4", "8">> }

MonthLits ==
    { <<>>, <<"0">>, <<"1">>, <<"0", "2">>, <<"0", "0", "2">>, <<"4">>,
      <<"1", "2">>, <<"1", "3">>,
      <<"4", "2", "9", "4", "9", "6", "7", "2", "9", "6">> }

DayLits ==
    { <<>>, <<"0">>, <<"1">>, <<"1", "5">>, <<"2", "8">>, <<"2", "9">>,
      <<"0", "2", "9">>, <<"3", "0">>, <<"3", "1">>, <<"3", "2">>,
      <<"4", "2", "9", "4", "9", "6", "7", "2", "9", "5">>,
      <<"4", "2", "9", "4", "9", "6", "7", "2", "9", "6">> }

SepLits == { <<"-">>, <<"/">>, <<".">> }

DateTails == { <<>>, <<" ", "x">> }

DateInputs ==
    { y \o a \o m \o b \o d \o t :
        y \in YearLits, a \in SepLits, m \in MonthLits,
        b \in SepLits, d \in DayLits, t \in DateTails }

StringAlphabet == {Quote, Backslash, Newline, "n", "t", "a"}

StringInputs == SeqsUpTo(StringAlphabet, MaxStrLen)

TypeWords ==
    { <<>>, Assets, Liabilities, Equity, Income, Expenses,
      <<"a", "s", "s", "e", "t", "s">>, <<"A", "S", "S", "E", "T", "S">>,
      <<"A", "s", "s", "e", "t">> }

SegLits ==
    { <<>>, <<"C", "a", "s", "h">>, <<"c", "a", "s", "h">>, <<"1", "a">>,
      <<"A", "-", "_">> }

RECURSIVE Segments(_)
\* the texts :seg1:seg2... of at most n segments
Segments(n) ==
    IF n = 0 THEN {<<>>}
    ELSE {<<>>} \cup {<<":">> \o g \o t : g \in SegLits, t \in Segments(n - 1)}

AccountTails == { <<>>, <<":">>, <<" ">> }

AccountInputs ==
    { w \o g \o t : w \in TypeWords, g \in Segments(MaxSubs), t \in AccountTails }

NumberTails == { <<>>, <<" ", "U", "S", "D">>, <<".", "5", "0">> }

\* texts that begin with digits but are not shaped like a date
NumberInputs == { y \o t : y \in YearLits, t \in NumberTails }

StringToks ==
    { <<Quote, "a", Quote>>, <<Quote, Backslash, "n", Quote>>, <<Quote, Quote>>,
      <<Quote, "a">>, <<" ">>, <<Tab>>, <<"x">> }

\* texts of at most MaxItems quoted strings, blanks and other pieces
StringListInputs == {Concat(ts) : ts \in SeqsUpTo(StringToks, MaxItems)}

TagToks ==
    { <<"#", "a">>, <<"^", "a">>, <<"#", "b", ".", "1">>, <<"#">>,
      <<" ">>, <<Tab>>, <<"!">> }

\* texts of at most MaxItems tags, links, blanks and other pieces
TagListInputs == {Concat(ts) : ts \in SeqsUpTo(TagToks, MaxItems)}

\* lines of a source buffer: two well-formed headers, a header with a date
\* out of range, a dated line that is no directive, metadata lines with bare
\* tags and links and with a key, and a malformed metadata line
LineToks ==
    { <<"2", "0", "2", "3", "-", "0", "1", "-", "1", "5", " ", "*", " ", "#", "a">>,
      <<"2", "0", "2", "3", "-", "2", "-", "1", " ", "t", "x", "n", " ", Quote, "p", Quote, " ", "^", "l", " ", "#", "b">>,
      <<"2", "0", "2", "3", "-", "1", "3", "-", "0", "1", " ", "*">>,
      <<"2", "0", "2", "3", "-", "0", "1", "-", "1", "6", " ", "$">>,
      <<" ", " ", "#", "a", " ", "#", "c", " ", "^", "l">>,
      <<" ", " ", "k", ":", " ", "#", "d">>,
      <<" ", " ", "!", "!">> }

\* source buffers of at most MaxLines lines, each ended by a newline
Buffers ==
    { Concat([k \in 1..Len(ts) |-> ts[k] \o <<Newline>>]) : ts \in SeqsUpTo(LineToks, MaxLines) }

\* operands: a fraction, a negated literal of scale 15 and the largest
\* coefficient of a Decimal
Operands ==
    { <<"1", ".", "5", "0">>,
      <<"-", "0", ".", "0", "0", "0", "0", "0", "0", "0", "0", "0", "0", "0", "0", "0", "0", "3">>,
      <<"7", "9", "2", "2", "8", "1", "6", "2", "5", "1", "4", "2", "6", "4", "3", "3", "7",
        "5", "9", "3", "5", "4", "3", "9", "5", "0", "3", "3", "5">> }

Operators == { <<"+">>, <<"-">>, <<" ", "*", " ">> }

\* operands joined by operators: a, a op b, a op b op c, ...
Flat(n) ==
    { Concat([k \in 1..(2 * n - 1) |-> IF k % 2 = 1 THEN xs[(k + 1) \div 2] ELSE os[k \div 2]]) :
        xs \in [1..n -> Operands], os \in [1..(n - 1) -> Operators] }

\* the same with one pair of parentheses around the operands i..j
Grouped(n) ==
    { Concat([k \in 1..(2 * n - 1) |->
                 IF k % 2 = 0 THEN os[k \div 2]
                 ELSE (IF (k + 1) \div 2 = g[1] THEN <<"(">> ELSE <<>>)
                          \o xs[(k + 1) \div 2]
                          \o (IF (k + 1) \div 2 = g[2] THEN <<")">> ELSE <<>>)]) :
        xs \in [1..n -> Operands], os \in [1..(n - 1) -> Operators],
        g \in {g \in (1..n) \X (1..n) : g[1] < g[2]} }

\* texts that are no expression: a dangling operator, an open parenthesis
Malformed == { <<"1", ".", "5", "0", "+">>, <<"(", "-", "2">>, <<"*", "-", "2">> }

Expressions ==
    UNION {Flat(n) \cup Grouped(n) : n \in 1..MaxOperands} \cup Malformed

Inputs ==
    FlagInputs \cup DateInputs \cup StringInputs \cup AccountInputs \cup NumberInputs
        \cup StringListInputs \cup TagListInputs

(***************************************************************************)
(* The state machine: a caller applies one parser to the whole input.      *)
(***************************************************************************)
Init ==
    /\ input \in Inputs
    /\ op = "none"
    /\ res = Err({})

CallFlag ==
    /\ op = "none"
    /\ op' = "flag"
    /\ res' = flag(input, 1)
    /\ UNCHANGED input

CallTxn ==
    /\ op = "none"
    /\ op' = "txn"
    /\ res' = txn(input, 1)
    /\ UNCHANGED input

CallDate ==
    /\ op = "none"
    /\ op' = "date"
    /\ res' = date(input, 1)
    /\ UNCHANGED input

CallString ==
    /\ op = "none"
    /\ op' = "string"
    /\ res' = string(input, 1)
    /\ UNCHANGED input

CallAccountType ==
    /\ op = "none"
    /\ op' = "account_type"
    /\ res' = account_type(input, 1)
    /\ UNCHANGED input

CallSubAccount ==
    /\ op = "none"
    /\ op' = "sub_account"
    /\ res' = sub_account(input, 1)
    /\ UNCHANGED input

CallAccount ==
    /\ op = "none"
    /\ op' = "account"
    /\ res' = account(input, 1)
    /\ UNCHANGED input

CallTxnStrings ==
    /\ op = "none"
    /\ op' = "txn_strings"
    /\ res' = txn_strings(input, 1)
    /\ UNCHANGED input

CallTagsLinks ==
    /\ op = "none"
    /\ op' = "tags_links"
    /\ res' = tags_links(input, 1)
    /\ UNCHANGED input

Next ==
    \/ CallFlag
    \/ CallTxn
    \/ CallDate
    \/ CallString
    \/ CallAccountType
    \/ CallSubAccount
    \/ CallAccount
    \/ CallTxnStrings
    \/ CallTagsLinks

Spec == Init /\ [][Next]_vars

(***************************************************************************)
(* The full parse as a state machine: the parser walks the lines of the    *)
(* buffer, collecting directives and errors, and hands both to the caller  *)
(* at the end.                                                             *)
(***************************************************************************)
InitParse ==
    /\ input \in Buffers
    /\ op = "new"
    /\ res = NoVal

\* the buffer is split into its lines
Lex ==
    /\ op = "new"
    /\ op' = "parse"
    /\ res' = ParseState(lines(input, 1), 1, <<>>, <<>>)
    /\ UNCHANGED input

\* the parser attempts one directive at the next line
ParseDirective ==
    /\ op = "parse"
    /\ res.pos <= Len(res.lines)
    /\ op' = "directive"
    /\ res' = [state |-> res, attempt |-> directive(res.lines, res.pos)]
    /\ UNCHANGED input

Accept ==
    /\ op = "directive"
    /\ res.attempt.ok
    /\ op' = "parse"
    /\ res' = accept(res.state, res.attempt)
    /\ UNCHANGED input

Recover ==
    /\ op = "directive"
    /\ ~res.attempt.ok
    /\ op' = "parse"
    /\ res' = recover(res.state, res.attempt)
    /\ UNCHANGED input

Finish ==
    /\ op = "parse"
    /\ res.pos > Len(res.lines)
    /\ op' = "done"
    /\ res' = parse_result(res)
    /\ UNCHANGED input

NextParse ==
    \/ Lex
    \/ ParseDirective
    \/ Accept
    \/ Recover
    \/ Finish

SpecParse == InitParse /\ [][NextParse]_vars

(***************************************************************************)
(* Evaluation as a state machine: the text is parsed into an expression    *)
(* tree, the tree is evaluated.                                            *)
(***************************************************************************)
InitArith ==
    /\ input \in Expressions
    /\ op = "new"
    /\ res = NoVal

ParseExpr ==
    /\ op = "new"
    /\ op' = "expr"
    /\ res' = parse_expr(input)
    /\ UNCHANGED input

\* the expression keeps its tree next to its value
Value ==
    /\ op = "expr"
    /\ res.ok
    /\ op' = "value"
    /\ res' = [expr |-> res.val, value |-> value(res.val)]
    /\ UNCHANGED input

NextArith ==
    \/ ParseExpr
    \/ Value

SpecArith == InitArith /\ [][NextArith]_vars

(***************************************************************************)
(* Properties.                                                             *)
(***************************************************************************)
StartsWith(s, t) == Len(t) <= Len(s) /\ SubSeq(s, 1, Len(t)) = t

\* number of leading ASCII digits of s
LeadDigits(s) ==
    Cardinality({k \in 1..Len(s) : \A j \in 1..k : s[j] \in DigitChars})

\* the variant the data model gives each single-character flag
FlagVariant(c) ==
    CASE c = "*" -> "Asterisk"
      [] c = "#" -> "Hash"
      [] c = "!" -> "Exclamation"
      [] c = "&" -> "Ampersand"
      [] c = "?" -> "Question"
      [] c = "%" -> "Percent"

\* C1: flag maps each of * # ! & ? % to its own variant and consumes exactly
\* that one character; in particular & yields Ampersand, not Exclamation.
C1_FlagVariants ==
    (op = "flag" /\ input # <<>> /\ input[1] \in {"*", "#", "!", "&", "?", "%"})
        => res = Ok(Flag(FlagVariant(input[1])), 2)

DateMissingCenturyAt(p) == {BaseError(p, "External", <<"DateMissingCentury">>)}

DateOutOfRangeAt(p) == {BaseError(p, "External", <<"DateOutOfRange">>)}

\* C2: when the leading year digit group has 1 to 3 digits, date fails with
\* DateMissingCentury located at the first character of the input (i0) and
\* returns no date value.
C2_MissingCentury ==
    (op = "date" /\ LeadDigits(input) \in 1..3)
        => /\ ~res.ok
           /\ res.val = NoVal
           /\ res.errs = DateMissingCenturyAt(1)

C2_Witness ==
    /\ op = "date"
    /\ LeadDigits(input) = 3
    /\ Len(input) > 8
    /\ res.errs = DateMissingCenturyAt(1)

\* number of consecutive ASCII digits of s that start at position p
DigitsFrom(s, p) ==
    Cardinality({k \in p..Len(s) : \A j \in p..k : s[j] \in DigitChars})

YearLen(s) == DigitsFrom(s, 1)

MonthLen(s) == DigitsFrom(s, YearLen(s) + 2)

DayLen(s) == DigitsFrom(s, YearLen(s) + MonthLen(s) + 3)

\* s begins with three digit groups separated by `-` or `/`
DateShaped(s) ==
    /\ YearLen(s) >= 1
    /\ YearLen(s) + 1 <= Len(s)
    /\ s[YearLen(s) + 1] \in {"-", "/"}
    /\ MonthLen(s) >= 1
    /\ YearLen(s) + MonthLen(s) + 2 <= Len(s)
    /\ s[YearLen(s) + MonthLen(s) + 2] \in {"-", "/"}
    /\ DayLen(s) >= 1

YearText(s) == SubSeq(s, 1, YearLen(s))

MonthText(s) == SubSeq(s, YearLen(s) + 2, YearLen(s) + MonthLen(s) + 1)

DayText(s) ==
    SubSeq(s, YearLen(s) + MonthLen(s) + 3, YearLen(s) + MonthLen(s) + DayLen(s) + 2)

DayEnd(s) == YearLen(s) + MonthLen(s) + DayLen(s) + 2

RECURSIVE StripZeros(_)
StripZeros(ds) ==
    IF ds # <<>> /\ ds[1] = "0" THEN StripZeros(Tail(ds)) ELSE ds

RECURSIVE Numeral(_)
\* the number a digit string denotes (used on strings of at most 9 digits)
Numeral(ds) ==
    IF ds = <<>> THEN 0
    ELSE 10 * Numeral(SubSeq(ds, 1, Len(ds) - 1)) + DigitVal(ds[Len(ds)])

\* the denoted number when it is below 10^9, otherwise -1
SmallNumeral(ds) ==
    IF Len(StripZeros(ds)) <= 9 THEN Numeral(StripZeros(ds)) ELSE -1

RECURSIVE NumeralMod400(_)
NumeralMod400(ds) ==
    IF ds = <<>> THEN 0
    ELSE (10 * NumeralMod400(SubSeq(ds, 1, Len(ds) - 1)) + DigitVal(ds[Len(ds)])) % 400

RECURSIVE DigitsLeq(_, _)
\* digit strings of equal length compared as numbers
DigitsLeq(a, b) ==
    IF a = <<>> THEN TRUE
    ELSE IF DigitVal(a[1]) # DigitVal(b[1]) THEN DigitVal(a[1]) < DigitVal(b[1])
    ELSE DigitsLeq(Tail(a), Tail(b))

NumeralAtMost(ds, max) ==
    \/ Len(StripZeros(ds)) < Len(max)
    \/ Len(StripZeros(ds)) = Len(max) /\ DigitsLeq(StripZeros(ds), max)

FitsI32(ds) == NumeralAtMost(ds, <<"2", "1", "4", "7", "4", "8", "3", "6", "4", "7">>)

FitsU32(ds) == NumeralAtMost(ds, <<"4", "2", "9", "4", "9", "6", "7", "2", "9", "5">>)

MonthDays == <<31, 28, 31, 30, 31, 30, 31, 31, 30, 31, 30, 31>>

\* the Gregorian calendar has a day dd of month md in year yd
CalendarValid(yd, md, dd) ==
    LET y400 == NumeralMod400(yd)
        leap == y400 % 4 = 0 /\ (y400 % 100 # 0 \/ y400 = 0)
        m    == SmallNumeral(md)
        d    == SmallNumeral(dd)
    IN  /\ m \in 1..12
        /\ d >= 1
        /\ d <= (IF m = 2 /\ leap THEN 29 ELSE MonthDays[m])

YearSupported(yd) == SmallNumeral(yd) \in 0..MaxYear

OutOfRangeFailure ==
    /\ ~res.ok
    /\ res.val = NoVal
    /\ res.errs = DateOutOfRangeAt(1)
    /\ \A e \in res.errs : ParseErrorMessage(e.what[1]) = "date out of range"

\* C3 as stated: three separated digit groups with a year of at least 4
\* digits that do not form a calendar date always fail with "date out of
\* range" located at the start of the literal.
C3_OutOfRange_Original ==
    ( /\ op = "date"
      /\ DateShaped(input)
      /\ YearLen(input) >= 4
      /\ ~CalendarValid(YearText(input), MonthText(input), DayText(input)) )
        => OutOfRangeFailure

\* C3 (amended): when moreover the year group fits i32 and the month and day
\* groups fit u32, date fails with "date out of range" located at the start
\* of the literal and returns no date.
C3_OutOfRange ==
    ( /\ op = "date"
      /\ DateShaped(input)
      /\ YearLen(input) >= 4
      /\ FitsI32(YearText(input))
      /\ FitsU32(MonthText(input))
      /\ FitsU32(DayText(input))
      /\ ~CalendarValid(YearText(input), MonthText(input), DayText(input)) )
        => OutOfRangeFailure

C3_Witness ==
    /\ op = "date"
    /\ DateShaped(input)
    /\ YearText(input) = <<"2", "0", "2", "3">>
    /\ MonthText(input) = <<"0", "2">>
    /\ DayText(input) = <<"2", "9">>
    /\ OutOfRangeFailure

DateSuccess ==
    /\ res.ok
    /\ res.rest = DayEnd(input) + 1
    /\ res.val = [ year  |-> Numeral(YearText(input)),
                   month |-> Numeral(MonthText(input)),
                   day   |-> Numeral(DayText(input)) ]

\* C4 as stated: every literal with a year of 4 or more digits and a
\* calendar-valid month and day is accepted with exactly its year, month and
\* day, the remaining input starting right after the day group.
C4_ValidDate_Original ==
    ( /\ op = "date"
      /\ DateShaped(input)
      /\ YearLen(input) >= 4
      /\ CalendarValid(YearText(input), MonthText(input), DayText(input)) )
        => DateSuccess

\* C4 (amended): the same for literals whose year is within the range the
\* date type supports (at most MaxYear).
C4_ValidDate ==
    ( /\ op = "date"
      /\ DateShaped(input)
      /\ YearLen(input) >= 4
      /\ YearSupported(YearText(input))
      /\ CalendarValid(YearText(input), MonthText(input), DayText(input)) )
        => DateSuccess

C4_Witness ==
    /\ op = "date"
    /\ res = Ok([year |-> 2024, month |-> 2, day |-> 29], 11)
    /\ Len(input) > 10
    /\ input[5] = "/"

RECURSIVE SplitColon(_)
\* the texts between the `:` characters of s
SplitColon(s) ==
    IF \A k \in 1..Len(s) : s[k] # ":" THEN <<s>>
    ELSE LET c == CHOOSE k \in 1..Len(s) :
                      s[k] = ":" /\ \A j \in 1..(k - 1) : s[j] # ":"
         IN  <<SubSeq(s, 1, c - 1)>> \o SplitColon(SubSeq(s, c + 1, Len(s)))

TypeKeywords == {Assets, Liabilities, Equity, Income, Expenses}

TypeNameOf(w) ==
    CASE w = Assets -> "Assets"
      [] w = Liabilities -> "Liabilities"
      [] w = Equity -> "Equity"
      [] w = Income -> "Income"
      [] w = Expenses -> "Expenses"

\* s is Type:Sub1:...:SubN with N >= 1 and every SubK a valid name
WellFormedAccount(s) ==
    /\ Len(SplitColon(s)) >= 2
    /\ SplitColon(s)[1] \in TypeKeywords
    /\ \A k \in 2..Len(SplitColon(s)) : SubAccountFromStr(SplitColon(s)[k])

\* C5: on Type:Sub1:...:SubN the account parser returns type Type and the
\* components [Sub1, ..., SubN] in order; every returned Account has at least
\* one component, and a bare account type is rejected.
C5_AccountStructure ==
    op = "account" =>
        /\ WellFormedAccount(input) =>
               res = Ok([ type  |-> TypeNameOf(SplitColon(input)[1]),
                          names |-> Tail(SplitColon(input)) ], Len(input) + 1)
        /\ res.ok => Len(res.val.names) >= 1
        /\ input \in TypeKeywords => ~res.ok

C5_Witness ==
    /\ op = "account"
    /\ WellFormedAccount(input)
    /\ res.ok
    /\ Len(res.val.names) = 3
    /\ res.val.names[1] # res.val.names[2]
    /\ res.val.names[2] # res.val.names[3]

RECURSIVE RefScan(_, _, _)
\* reference reading of a string body from position k: character by
\* character up to the first unescaped quote
RefScan(s, k, acc) ==
    IF k > Len(s) THEN [status |-> "open", val |-> acc, end |-> k]
    ELSE IF s[k] = Quote THEN [status |-> "closed", val |-> acc, end |-> k]
    ELSE IF s[k] # Backslash THEN RefScan(s, k + 1, Append(acc, s[k]))
    ELSE IF k + 1 > Len(s) THEN [status |-> "open", val |-> acc, end |-> k]
    ELSE IF s[k + 1] = Backslash THEN RefScan(s, k + 2, Append(acc, Backslash))
    ELSE IF s[k + 1] = Quote THEN RefScan(s, k + 2, Append(acc, Quote))
    ELSE IF s[k + 1] = "n" THEN RefScan(s, k + 2, Append(acc, Newline))
    ELSE IF s[k + 1] = "t" THEN RefScan(s, k + 2, Append(acc, Tab))
    ELSE [status |-> "badescape", val |-> acc, end |-> k]

\* C6: string decodes exactly the escapes \\ \" \n \t, copies every other
\* character between the quotes unchanged and in order (embedded newlines
\* included), and leaves the surrounding quotes out of the value.
C6_StringDecoding ==
    (op = "string" /\ input # <<>> /\ input[1] = Quote) =>
        LET r == RefScan(input, 2, <<>>)
        IN  /\ (r.status = "closed" /\ r.val # <<>>) => res = Ok(r.val, r.end + 1)
            /\ r.status = "badescape" => ~res.ok
            /\ res.ok => (r.status = "closed" /\ res.val = r.val /\ res.rest = r.end + 1)

C6_Witness ==
    /\ op = "string"
    /\ Len(input) = 5
    /\ input[2] = Backslash
    /\ input[3] = "n"
    /\ input[4] = Newline
    /\ res = Ok(<<Newline, Newline>>, 6)

\* the run of backslashes that ends just before position k (not counting
\* the opening quote's position) has even length
EvenBackslashesBefore(s, k) ==
    Cardinality({j \in 2..(k - 1) : \A i \in j..(k - 1) : s[i] = Backslash}) % 2 = 0

UnescapedQuoteAt(s, k) == s[k] = Quote /\ EvenBackslashesBefore(s, k)

\* C7: an input that begins with a quote and has no later unescaped quote
\* (a lone trailing backslash included) makes string fail without a value.
C7_Unterminated ==
    ( /\ op = "string"
      /\ input # <<>>
      /\ input[1] = Quote
      /\ \A k \in 2..Len(input) : ~UnescapedQuoteAt(input, k) )
        => (~res.ok /\ res.val = NoVal)

C7_Witness ==
    /\ op = "string"
    /\ Len(input) = 4
    /\ input[1] = Quote
    /\ input[2] = "a"
    /\ input[3] = Backslash
    /\ input[4] = Quote
    /\ ~res.ok

\* C8: account_type accepts exactly the inputs that begin with one of the
\* five keywords in their exact spelling, yielding the variant of that name;
\* every other input is rejected by account_type and by account.
C8_AccountTypeKeywords ==
    /\ op = "account_type" =>
           IF \E w \in TypeKeywords : StartsWith(input, w)
           THEN \E w \in TypeKeywords :
                    StartsWith(input, w) /\ res = Ok(TypeNameOf(w), Len(w) + 1)
           ELSE ~res.ok
    /\ (op = "account" /\ \A w \in TypeKeywords : ~StartsWith(input, w)) => ~res.ok

C8_Witness ==
    /\ op = "account"
    /\ StartsWith(input, <<"a", "s", "s", "e", "t", "s", ":", "C", "a", "s", "h">>)
    /\ ~res.ok

Txn == <<"t", "x", "n">>

\* C9: on input beginning with txn the txn parser returns Flag::Asterisk and
\* consumes exactly three characters, the value it returns for *; on any
\* other input it succeeds or fails as flag does, with the same flag and the
\* same remaining input.
C9_TxnSynonym ==
    op = "txn" =>
        /\ StartsWith(input, Txn) => res = Ok(Flag("Asterisk"), 4)
        /\ StartsWith(input, <<"*">>) => res = Ok(Flag("Asterisk"), 2)
        /\ ~StartsWith(input, Txn) =>
               /\ res.ok = flag(input, 1).ok
               /\ res.val = flag(input, 1).val
               /\ res.rest = flag(input, 1).rest
               /\ flag(input, 1).errs \subseteq res.errs

C9_Witness ==
    /\ op = "txn"
    /\ StartsWith(input, Txn)
    /\ Len(input) > 3
    /\ res = Ok(Flag("Asterisk"), 4)

FlagLetterFailure == BaseError(1, "External", <<"FlagLetterError">>)

\* C10: ' followed by a character of the flag-letter set yields Flag::Letter
\* of that character; followed by any other character, flag fails, its error
\* carries the flag-letter validation failure located at the ', every error
\* is located at the start of the input, and nothing is consumed.
C10_LetterFlag ==
    (op = "flag" /\ Len(input) >= 2 /\ input[1] = "'") =>
        IF IsFlagLetter(input[2])
        THEN res = Ok(FlagLetterOf(input[2]), 3)
        ELSE /\ ~res.ok
             /\ res.rest = 0
             /\ FlagLetterFailure \in res.errs
             /\ \A e \in res.errs : e.loc = 1

C10_Witness ==
    /\ op = "flag"
    /\ Len(input) >= 2
    /\ input[1] = "'"
    /\ input[2] = "z"
    /\ FlagLetterFailure \in res.errs

Sep1(s) == YearLen(s) + 1

Sep2(s) == YearLen(s) + MonthLen(s) + 2

\* the date-shaped text s with both separators written as `-`
Dashed(s) == [s EXCEPT ![Sep1(s)] = "-", ![Sep2(s)] = "-"]

\* C16: each separator is matched on its own as `-` or `/`: a literal, mixed
\* separators included, gives exactly the result of the same literal written
\* with `-` twice, and mixed literals of valid dates are accepted.
C16_MixedSeparators ==
    (op = "date" /\ DateShaped(input)) => res = date(Dashed(input), 1)

C16_Witness ==
    /\ op = "date"
    /\ DateShaped(input)
    /\ input[Sep1(input)] = "-"
    /\ input[Sep2(input)] = "/"
    /\ res.ok
    /\ res.val = [year |-> 2023, month |-> 1, day |-> 15]

ErrorReasons(r) == {e.what : e \in r.errs}

\* C17: an input that begins with 1 to 3 digits fails with
\* DateMissingCentury whatever follows the digits; an input that begins with
\* 4 or more digits not followed by a separator fails with an error that is
\* neither DateMissingCentury nor DateOutOfRange.
C17_CenturyFirst ==
    op = "date" =>
        /\ YearLen(input) \in 1..3 =>
               (~res.ok /\ res.errs = DateMissingCenturyAt(1))
        /\ ( /\ YearLen(input) >= 4
             /\ (YearLen(input) = Len(input) \/ input[Sep1(input)] \notin {"-", "/"}) )
               => /\ ~res.ok
                  /\ res.errs # {}
                  /\ <<"DateMissingCentury">> \notin ErrorReasons(res)
                  /\ <<"DateOutOfRange">> \notin ErrorReasons(res)

C17_Witness ==
    /\ op = "date"
    /\ input = <<"1", ".", "5", "0">>
    /\ res.errs = DateMissingCenturyAt(1)

ConversionFailure ==
    /\ ~res.ok
    /\ res.errs # {}
    /\ \A e \in res.errs : e.kind = "External" /\ e.what = <<"ParseIntError">>

\* C18 as stated: a year group above 2^31-1, or a month or day group above
\* 2^32-1, makes date fail with a number-conversion error that is neither
\* DateMissingCentury nor DateOutOfRange; a year of 4 or more digits that
\* fits i32 but is not a supported year fails with DateOutOfRange.
C18_Overflow_Original ==
    op = "date" =>
        /\ (YearLen(input) >= 1 /\ ~FitsI32(YearText(input))) => ConversionFailure
        /\ ( /\ DateShaped(input)
             /\ ~FitsU32(MonthText(input)) \/ ~FitsU32(DayText(input)) )
               => ConversionFailure
        /\ ( /\ DateShaped(input)
             /\ YearLen(input) >= 4
             /\ FitsI32(YearText(input))
             /\ FitsU32(MonthText(input))
             /\ FitsU32(DayText(input))
             /\ ~YearSupported(YearText(input)) )
               => (~res.ok /\ res.errs = DateOutOfRangeAt(1))

\* C18 (amended): the month and day clause holds for literals whose year
\* group has at least 4 digits.
C18_Overflow ==
    op = "date" =>
        /\ (YearLen(input) >= 1 /\ ~FitsI32(YearText(input))) => ConversionFailure
        /\ ( /\ DateShaped(input)
             /\ YearLen(input) >= 4
             /\ ~FitsU32(MonthText(input)) \/ ~FitsU32(DayText(input)) )
               => ConversionFailure
        /\ ( /\ DateShaped(input)
             /\ YearLen(input) >= 4
             /\ FitsI32(YearText(input))
             /\ FitsU32(MonthText(input))
             /\ FitsU32(DayText(input))
             /\ ~YearSupported(YearText(input)) )
               => (~res.ok /\ res.errs = DateOutOfRangeAt(1))

C18_Witness ==
    /\ op = "date"
    /\ DateShaped(input)
    /\ YearText(input) = <<"2", "0", "2", "3">>
    /\ FitsU32(MonthText(input))
    /\ ~FitsU32(DayText(input))
    /\ res.errs = {BaseError(Sep2(input) + 1, "External", <<"ParseIntError">>)}

\* a digit group rewritten with two digits when its value is below 100
TwoDigits(ds) ==
    IF Len(StripZeros(ds)) = 0 THEN <<"0", "0">>
    ELSE IF Len(StripZeros(ds)) = 1 THEN <<"0">> \o StripZeros(ds)
    ELSE StripZeros(ds)

\* the date-shaped text s with its month and day groups in two digits
Canonical(s) ==
    YearText(s) \o <<s[Sep1(s)]>> \o TwoDigits(MonthText(s)) \o <<s[Sep2(s)]>>
        \o TwoDigits(DayText(s)) \o SubSeq(s, DayEnd(s) + 1, Len(s))

\* C19: month and day groups of any positive number of digits are read by
\* value: a literal succeeds or fails as the literal with the same year and
\* two-digit month and day does, and yields the same date (2023-1-5 and
\* 2023-001-0005 as 2023-01-05).
C19_GroupLengths ==
    (op = "date" /\ DateShaped(input) /\ YearLen(input) >= 4) =>
        /\ res.ok = date(Canonical(input), 1).ok
        /\ res.val = date(Canonical(input), 1).val
        /\ ErrorReasons(res) = ErrorReasons(date(Canonical(input), 1))

C19_Witness ==
    /\ op = "date"
    /\ DateShaped(input)
    /\ MonthText(input) = <<"0", "0", "2">>
    /\ DayText(input) = <<"1">>
    /\ res.ok
    /\ res.val = [year |-> 2024, month |-> 2, day |-> 1]

BlankEnd(s, p) ==
    p + Cardinality({k \in p..Len(s) : \A j \in p..k : s[j] \in {" ", Tab}})

\* a well-formed quoted string starts at position p of s
QuotedAt(s, p) ==
    p <= Len(s) /\ s[p] = Quote /\ RefScan(s, p + 1, <<>>).status = "closed"

RECURSIVE RefStrings(_, _, _, _)
\* reference reading of a list of quoted strings: at position p, with blanks
\* skipped when an item has been read, take the quoted string if there is
\* one, otherwise stop at p
RefStrings(s, p, acc, NonEmptyOnly) ==
    LET q == IF acc = <<>> THEN p ELSE BlankEnd(s, p)
        r == RefScan(s, q + 1, <<>>)
    IN  IF QuotedAt(s, q) /\ (NonEmptyOnly => r.val # <<>>)
        THEN RefStrings(s, r.end + 1, Append(acc, r.val), NonEmptyOnly)
        ELSE Ok(acc, p)

IdEnd(s, p) ==
    p + Cardinality({k \in p..Len(s) : \A j \in p..k : s[j] \in is_valid_char})

\* a well-formed tag or link starts at position p of s
TagOrLinkAt(s, p) ==
    p <= Len(s) /\ s[p] \in {"#", "^"} /\ IdEnd(s, p + 1) > p + 1

RECURSIVE RefTagsLinks(_, _, _)
RefTagsLinks(s, p, acc) ==
    LET q == IF acc = <<>> THEN p ELSE BlankEnd(s, p)
        item == [ kind |-> IF s[q] = "#" THEN "Tag" ELSE "Link",
                  name |-> SubSeq(s, q + 1, IdEnd(s, q + 1) - 1) ]
    IN  IF TagOrLinkAt(s, q)
        THEN RefTagsLinks(s, IdEnd(s, q + 1), Append(acc, item))
        ELSE Ok(acc, p)

\* C20: txn_strings and tags_links always succeed; when the input does not
\* begin with a well-formed item the list is empty and nothing is consumed;
\* otherwise the items are returned in source order, duplicates kept, up to
\* the first position where optional blanks are not followed by a
\* well-formed item, and those blanks are not consumed.
C20_ItemLists ==
    /\ op = "txn_strings" => res = RefStrings(input, 1, <<>>, FALSE)
    /\ op = "tags_links" => res = RefTagsLinks(input, 1, <<>>)

\* the same reading holds of txn_strings when the empty quoted string, which
\* string rejects, is not counted as an item, and of tags_links as stated
ItemListsApartFromEmptyString ==
    /\ op = "txn_strings" => res = RefStrings(input, 1, <<>>, TRUE)
    /\ op = "tags_links" => res = RefTagsLinks(input, 1, <<>>)

(***************************************************************************)
(* Properties of the full parse.                                           *)
(***************************************************************************)
\* the lines c are one directive's worth of text: a line that is not
\* indented, followed by indented lines only
IsChunk(c) ==
    /\ Len(c) >= 1
    /\ ~is_indented(c[1])
    /\ \A k \in 2..Len(c) : is_indented(c[k])

WellFormedDirective(c) == IsChunk(c) /\ directive(c, 1).ok

MalformedDirective(c) == IsChunk(c) /\ ~directive(c, 1).ok

\* a directive without its place in the buffer
Unspanned(d) ==
    [ date |-> d.date, flag |-> d.flag, payee |-> d.payee,
      narration |-> d.narration, metadata |-> d.metadata ]

UnspannedAll(ds) == [k \in 1..Len(ds) |-> Unspanned(ds[k])]

\* the buffer is a well-formed directive (lines 1..i), a malformed one
\* (lines i+1..j) and a well-formed one (the remaining lines)
Sandwich(ls, i, j) ==
    /\ WellFormedDirective(SubSeq(ls, 1, i))
    /\ MalformedDirective(SubSeq(ls, i + 1, j))
    /\ WellFormedDirective(SubSeq(ls, j + 1, Len(ls)))

RECURSIVE RefChunks(_, _)
\* the buffer cut into chunks: each starts at the first line not yet taken
\* and runs over the indented lines that follow it
RefChunks(ls, i) ==
    IF i > Len(ls) THEN <<>>
    ELSE LET e == CHOOSE j \in (i + 1)..(Len(ls) + 1) :
                      /\ \A k \in (i + 1)..(j - 1) : is_indented(ls[k])
                      /\ j = Len(ls) + 1 \/ ~is_indented(ls[j])
         IN  <<[line |-> i, text |-> SubSeq(ls, i, e - 1)]>> \o RefChunks(ls, e)

\* the directives of the chunks that are well-formed on their own, in source
\* order, each at the line of its chunk
RefDirectives(chunks) ==
    LET good == SelectSeq(chunks, LAMBDA c : directive(c.text, 1).ok)
    IN  [k \in 1..Len(good) |-> [directive(good[k].text, 1).val EXCEPT !.line = good[k].line]]

InSourceOrder(items) == \A k \in 1..(Len(items) - 1) : items[k].line < items[k + 1].line

RefNames(l, c) ==
    { SubSeq(l, q + 1, IdEnd(l, q + 1) - 1) :
        q \in { q \in 1..Len(l) :
                  /\ l[q] = c
                  /\ TagOrLinkAt(l, q)
                  /\ q = 1 \/ l[q - 1] \in {" ", Tab}
                  /\ Cardinality({k \in 1..(q - 1) : l[k] = Quote}) % 2 = 0 } }

\* an indented line of bare tags and links: its first character after the
\* indentation is # or ^
IsBareLine(l) == l[BlankEnd(l, 1)] \in {"#", "^"}

\* the key of an indented line that is not bare: the text between the
\* indentation and the first colon
RefKey(l) ==
    SubSeq(l, BlankEnd(l, 1), (CHOOSE q \in 1..Len(l) : l[q] = ":" /\ \A k \in 1..(q - 1) : l[k] # ":") - 1)

RefKeys(text) ==
    LET keyed == SelectSeq(Tail(text), LAMBDA l : ~IsBareLine(l))
    IN  [m \in 1..Len(keyed) |-> RefKey(keyed[m])]

\* the lines of the directive that starts at the given line
TextAt(ls, line) ==
    LET chunks == RefChunks(ls, 1)
    IN  chunks[CHOOSE k \in 1..Len(chunks) : chunks[k].line = line].text

\* C14: the tag set (link set) of a directive is the union of the bare #tag
\* (^link) tokens of its header line and of its indented lines, as a set;
\* the keyed metadata holds the entries of the keyed lines and nothing else,
\* so no tag or link of a bare line is among them.
C14_TagLinkSets ==
    op = "done" =>
        \A k \in 1..Len(res.directives) :
            LET d    == res.directives[k]
                text == TextAt(lines(input, 1), d.line)
                bare == {m \in 2..Len(text) : IsBareLine(text[m])}
            IN  /\ tags(d.metadata) =
                       RefNames(text[1], "#") \cup UNION {RefNames(text[m], "#") : m \in bare}
                /\ links(d.metadata) =
                       RefNames(text[1], "^") \cup UNION {RefNames(text[m], "^") : m \in bare}
                /\ [m \in 1..Len(key_values(d.metadata)) |-> key_values(d.metadata)[m].key]
                       = RefKeys(text)

\* a finished parse with a directive whose tag a stands on the header line
\* and again on an indented line next to tag c and link l, and whose keyed
\* entry k holds the tag d, which is not among the directive's tags
C14_Witness ==
    /\ op = "done"
    /\ \E k \in 1..Len(res.directives) :
           LET md == res.directives[k].metadata
           IN  /\ tags(md) = {<<"a">>, <<"c">>}
               /\ links(md) = {<<"l">>}
               /\ md.inline = <<[kind |-> "Tag", name |-> <<"a">>]>>
               /\ key_values(md) =
                      <<[key |-> <<"k">>, value |-> [kind |-> "Tag", name |-> <<"d">>]]>>

\* reference arithmetic: an exact number is a signed numerator over the
\* power of ten 10^exp
RECURSIVE RefNat(_)
\* the natural number written by the digits ds
RefNat(ds) ==
    IF ds = <<>> THEN <<>>
    ELSE IF Len(ds) = 1 THEN (IF DigitVal(ds[1]) = 0 THEN <<>> ELSE <<DigitVal(ds[1])>>)
    ELSE LET h == Len(ds) \div 2
         IN  NAdd(Shift(RefNat(SubSeq(ds, 1, h)), Len(ds) - h),
                  RefNat(SubSeq(ds, h + 1, Len(ds))))

\* the digits of a literal, and how many of them follow the point
RefDigits(text) == SelectSeq(text, LAMBDA c : c # ".")

RefFraction(text) ==
    IF \E k \in 1..Len(text) : text[k] = "."
    THEN Len(text) - (CHOOSE k \in 1..Len(text) : text[k] = ".")
    ELSE 0

RefAdd(x, y) ==
    LET a == Shift(x.num, y.exp)
        b == Shift(y.num, x.exp)
    IN  IF x.neg = y.neg THEN [neg |-> x.neg, num |-> NAdd(a, b), exp |-> x.exp + y.exp]
        ELSE IF NLess(a, b) THEN [neg |-> y.neg, num |-> NSub(b, a), exp |-> x.exp + y.exp]
        ELSE [neg |-> x.neg, num |-> NSub(a, b), exp |-> x.exp + y.exp]

RefNeg(x) == [neg |-> ~x.neg, num |-> x.num, exp |-> x.exp]

RefMul(x, y) == [neg |-> x.neg # y.neg, num |-> NMul(x.num, y.num), exp |-> x.exp + y.exp]

RECURSIVE RefValue(_)
\* the mathematically exact value of an expression
RefValue(a) ==
    IF a.kind = "Value"
    THEN [neg |-> FALSE, num |-> RefNat(RefDigits(a.text)), exp |-> RefFraction(a.text)]
    ELSE IF a.kind = "Paren" THEN RefValue(a.arg)
    ELSE IF a.kind = "Neg" THEN RefNeg(RefValue(a.arg))
    ELSE IF a.kind = "Add" THEN RefAdd(RefValue(a.left), RefValue(a.right))
    ELSE IF a.kind = "Sub" THEN RefAdd(RefValue(a.left), RefNeg(RefValue(a.right)))
    ELSE RefMul(RefValue(a.left), RefValue(a.right))

\* the Decimal d is the exact number r
SameValue(d, r) ==
    /\ Shift(d.coef, r.exp) = Shift(r.num, d.scale)
    /\ d.coef = <<>> \/ d.neg = r.neg

\* the j-th decimal digit of a, counted from the least significant
RefDigit(a, j) ==
    IF (j - 1) \div 4 + 1 > Len(a) THEN 0
    ELSE (a[(j - 1) \div 4 + 1] \div (10 ^ ((j - 1) % 4))) % 10

\* the Decimal d has the digits and the point of the literal text
SameText(d, text) ==
    LET ds == RefDigits(text)
    IN  /\ ~d.neg
        /\ d.scale = RefFraction(text)
        /\ \A j \in 1..Len(ds) : RefDigit(d.coef, j) = DigitVal(ds[Len(ds) + 1 - j])
        /\ \A j \in (Len(ds) + 1)..(4 * Len(d.coef)) : RefDigit(d.coef, j) = 0

RECURSIVE RefScale(_)
\* the number of fraction digits the operations give the exact result: the
\* larger one for a sum or difference, the sum for a product
RefScale(a) ==
    IF a.kind = "Value" THEN RefFraction(a.text)
    ELSE IF a.kind \in {"Paren", "Neg"} THEN RefScale(a.arg)
    ELSE IF a.kind = "Mul" THEN RefScale(a.left) + RefScale(a.right)
    ELSE Max(RefScale(a.left), RefScale(a.right))

\* the exact value of a, written with RefScale(a) fraction digits, is a
\* Decimal: at most MaxScale fraction digits and a coefficient below 2^96
FitsAt(r, scale) == scale <= MaxScale /\ NLess(r.num, Shift(Two96, r.exp - scale))

Fits(a) == FitsAt(RefValue(a), RefScale(a))

RECURSIVE AllFit(_)
\* every literal and every intermediate result of a is a Decimal
AllFit(a) ==
    /\ a.kind \in {"Paren", "Neg"} => AllFit(a.arg)
    /\ a.kind \in {"Add", "Sub", "Mul"} => AllFit(a.left) /\ AllFit(a.right)
    /\ Fits(a)

\* the evaluation gave the exact value, and a bare literal kept its digits
ExactlyEvaluated ==
    /\ res.value.ok
    /\ SameValue(res.value.val, RefValue(res.expr))
    /\ res.expr.kind = "Value" => SameText(res.value.val, res.expr.text)

AccountPrefixEnds(s) == {q \in 1..(Len(s) + 1) : WellFormedAccount(SubSeq(s, 1, q - 1))}

\* the end of the longest prefix of s that is a well-formed account
LongestAccountEnd(s) ==
    CHOOSE q \in AccountPrefixEnds(s) : \A r \in AccountPrefixEnds(s) : r <= q

LongestAccount(s) == SubSeq(s, 1, LongestAccountEnd(s) - 1)

\* C21: account consumes the longest prefix of the form Type(:SubAccount)+
\* and nothing more.  Whenever the input has such a prefix the parser
\* succeeds with the components of the longest one and the rest starts right
\* after it; in particular a `:` that is followed by the end of the input or
\* by a character that cannot start a sub-account is left unconsumed and does
\* not make the account fail.  Without such a prefix the parser fails.
C21_LongestPrefix ==
    op = "account" =>
        /\ AccountPrefixEnds(input) # {} =>
               res = Ok([ type  |-> TypeNameOf(SplitColon(LongestAccount(input))[1]),
                          names |-> Tail(SplitColon(LongestAccount(input))) ],
                        LongestAccountEnd(input))
        /\ res.ok => AccountPrefixEnds(input) # {}
        /\ \A q \in AccountPrefixEnds(input) :
               (q <= Len(input) /\ input[q] = ":"
                  /\ (q = Len(input) \/ input[q + 1] \notin is_valid_initial))
                   => res.ok /\ res.rest = q

\* an account of two components followed by `:` and a lower-case letter: the
\* rest starts at that colon
C21_Witness ==
    /\ op = "account"
    /\ res.ok
    /\ Len(res.val.names) = 2
    /\ res.rest < Len(input)
    /\ input[res.rest] = ":"
    /\ input[res.rest + 1] \in LowerLetters

\* an account followed by `:` at the very end of the input
TrailingColonAtEnd ==
    /\ op = "account"
    /\ res.ok
    /\ res.rest = Len(input)
    /\ input[res.rest] = ":"

\* C22: string accepts the empty quoted string.  On an input beginning with
\* two double quotes it returns the empty string and consumes exactly those
\* two characters, so that txn_strings on `"" "a"` returns the two strings
\* "" and "a".
C22_EmptyString ==
    /\ (op = "string" /\ StartsWith(input, <<Quote, Quote>>)) => res = Ok(<<>>, 3)
    /\ (op = "txn_strings" /\ input = <<Quote, Quote, " ", Quote, "a", Quote>>)
           => res = Ok(<< <<>>, <<"a">> >>, 7)

\* what the parsers do instead: string fails on every input beginning with
\* two double quotes, and txn_strings then returns no string and consumes
\* nothing
EmptyStringRejected ==
    /\ (op = "string" /\ StartsWith(input, <<Quote, Quote>>))
           => res = Err({BaseError(2, "EscapedTransform", <<>>)})
    /\ (op = "txn_strings" /\ StartsWith(input, <<Quote, Quote>>)) => res = Ok(<<>>, 1)

====
